---- MODULE Spec2Model ----
(***************************************************************************)
(* slackgpt: the completion client (chatgpt.GetStringResponse) and the     *)
(* process supervisor (main, run).  Strings that the code inspects are     *)
(* sequences of one-character strings, so that joining and trimming are    *)
(* computed rather than assumed.                                           *)
(***************************************************************************)
EXTENDS Integers, Sequences, FiniteSets, TLC

\* ------------------------------------------------------------------ bounds
MaxFrags == 3
MaxFragLen == 1
MaxTextLen == 3
MaxExtraChoices == 1
MaxInflight == 2

\* --------------------------------------------------------------- constants
MaxTokens == 1000
GraceNs == 10
ShutdownCap == 1
HandlerErrorsCap == 1

VARIABLES
    \* chatgpt.GetStringResponse, one invocation
    gpc,            \* "idle" | "calling" | "returned" | "panicked"
    chat,           \* the conversation argument
    req,            \* the request handed to CreateChatCompletion, or NoReq
    apiCalls,       \* number of CreateChatCompletion calls issued
    resp,           \* what CreateChatCompletion returned, or NoResp
    result,         \* returned string
    err,            \* returned error
    \* main / run
    pc,             \* position of the main goroutine
    exitCode,       \* -1 while the process runs, else the exit code
    runErr,         \* "unset" until run returns, then "nil" or the error
    parseErr,       \* err of configs.ParseConfigFromPath ("unset" before)
    loadErr,        \* err of configs.LoadConfig ("unset" before)
    clients,        \* clients constructed so far
    notified,       \* signal.Notify has armed the shutdown channel
    shutdown,       \* buffer of the shutdown channel
    handlerErrors,  \* buffer of the handlerErrors channel
    branch,         \* select case taken: "none" | "error" | "signal"
    recvErr,        \* value received from handlerErrors
    graceLeft,      \* -1: no timeout context; else ns left on its timer
    \* the bridge goroutine and its dispatches
    bridge,         \* "notstarted" | "running" | "returning" | "blocked" | "done"
    bridgeErr,      \* terminal value of slackgpt.EventHandler
    starts,         \* number of times the bridge goroutine was started
    sends,          \* completed sends on handlerErrors
    completing,     \* dispatches whose completion call is in flight
    replying,       \* dispatches posting their reply
    \* history
    firstReady,     \* channel that became ready first: "none" | "error" | "signal"
    sigClean        \* a signal arrived at the wait point with no error pending

gvars == <<gpc, chat, req, apiCalls, resp, result, err>>
svars == <<pc, exitCode, runErr, parseErr, loadErr, clients, notified, shutdown,
           handlerErrors, branch, recvErr, graceLeft>>
bvars == <<bridge, bridgeErr, starts, sends, completing, replying>>
hvars == <<firstReady, sigClean>>
vars == <<gvars, svars, bvars, hvars>>

\* ------------------------------------------------------------------ strings
Chars == {" ", "a"}
SpaceChars == {" ", "\t", "\n", "\r"}

Strings(n) == UNION {[1..k -> Chars] : k \in 0..n}
SeqsUpTo(S, n) == UNION {[1..k -> S] : k \in 0..n}

IsSpace(c) == c \in SpaceChars

\* strings.Join(elems, sep)
RECURSIVE JoinRest(_, _, _)
JoinRest(elems, sep, acc) ==
    IF elems = <<>> THEN acc
    ELSE JoinRest(Tail(elems), sep, acc \o sep \o Head(elems))

Join(elems, sep) ==
    IF Len(elems) = 0 THEN <<>>
    ELSE IF Len(elems) = 1 THEN elems[1]
    ELSE JoinRest(Tail(elems), sep, elems[1])

\* strings.TrimSpace(s)
RECURSIVE TrimLeft(_)
TrimLeft(s) ==
    IF s # <<>> /\ IsSpace(Head(s)) THEN TrimLeft(Tail(s)) ELSE s

RECURSIVE TrimRight(_)
TrimRight(s) ==
    IF s # <<>> /\ IsSpace(s[Len(s)]) THEN TrimRight(SubSeq(s, 1, Len(s) - 1)) ELSE s

TrimSpaceLeftOnly(s) == TrimLeft(s)

TrimSpace(s) == TrimRight(TrimLeft(s))

\* ---------------------------------------------------- GetStringResponse
NoReq == [model |-> "none", messages |-> <<>>, maxTokens |-> 0]
NoResp == [err |-> "unset", choices |-> <<>>]

SystemContent == "You are a helpful chat bot assistant. Please answer shortly, and in Japanese."
Separator == <<" ">>

ApiErrors == {"ErrTransport", "ErrRateLimit"}
OtherChoice == [content |-> <<"a", "a", "a", "a", "a", "a", "a">>]

\* what CreateChatCompletion may return
Responses ==
    {[err |-> e, choices |-> <<>>] : e \in ApiErrors}
    \cup {[err |-> "nil", choices |-> <<>>]}
    \cup {[err |-> "nil",
           choices |-> <<[content |-> t]>> \o [i \in 1..k |-> OtherChoice]] :
              t \in Strings(MaxTextLen), k \in 0..MaxExtraChoices}

EmptyPromptNever(c) == FALSE

EmptyPrompt(c) == Len(c) = 0

BuildRequest(c) ==
    [model |-> "gpt-4-1106-preview",
     messages |-> <<[role |-> "system", content |-> SystemContent],
                    [role |-> "user", content |-> Join(c, Separator)]>>,
     maxTokens |-> MaxTokens]

CompletionReturnWrapped(r) ==
    IF r.err # "nil"
    THEN [pc |-> "returned", result |-> <<>>, err |-> "completion failed"]
    ELSE IF Len(r.choices) = 0
    THEN [pc |-> "panicked", result |-> <<>>, err |-> "unset"]
    ELSE [pc |-> "returned", result |-> TrimSpace(r.choices[1].content), err |-> "nil"]

\* lines 52-55: what GetStringResponse does with the API's answer
CompletionReturn(r) ==
    IF r.err # "nil"
    THEN [pc |-> "returned", result |-> <<>>, err |-> r.err]
    ELSE IF Len(r.choices) = 0
    THEN [pc |-> "panicked", result |-> <<>>, err |-> "unset"]
    ELSE [pc |-> "returned", result |-> TrimSpace(r.choices[1].content), err |-> "nil"]

\* lines 31-51: the emptiness check, the request, the call
GetStringResponseCall ==
    /\ gpc = "idle"
    /\ \E c \in SeqsUpTo(Strings(MaxFragLen), MaxFrags) :
         /\ chat' = c
         /\ IF EmptyPrompt(c)
            THEN /\ gpc' = "returned"
                 /\ result' = <<>>
                 /\ err' = "ErrorEmptyPrompt"
                 /\ UNCHANGED <<req, apiCalls>>
            ELSE /\ gpc' = "calling"
                 /\ req' = BuildRequest(c)
                 /\ apiCalls' = apiCalls + 1
                 /\ UNCHANGED <<result, err>>
    /\ UNCHANGED <<resp, svars, bvars, hvars>>

\* lines 51-55: the call returns
GetStringResponseReturn ==
    /\ gpc = "calling"
    /\ \E r \in Responses :
         /\ resp' = r
         /\ gpc' = CompletionReturn(r).pc
         /\ result' = CompletionReturn(r).result
         /\ err' = CompletionReturn(r).err
    /\ UNCHANGED <<chat, req, apiCalls, svars, bvars, hvars>>

Init ==
    /\ gpc = "idle" /\ chat = <<>> /\ req = NoReq /\ apiCalls = 0
    /\ resp = NoResp /\ result = <<>> /\ err = "unset"
    /\ pc = "main" /\ exitCode = -1 /\ runErr = "unset"
    /\ parseErr = "unset" /\ loadErr = "unset" /\ clients = {}
    /\ notified = FALSE /\ shutdown = <<>> /\ handlerErrors = <<>>
    /\ branch = "none" /\ recvErr = "unset" /\ graceLeft = -1
    /\ bridge = "notstarted" /\ bridgeErr = "unset" /\ starts = 0 /\ sends = 0
    /\ completing = 0 /\ replying = 0
    /\ firstReady = "none" /\ sigClean = FALSE

NextClient == GetStringResponseCall \/ GetStringResponseReturn

SpecClient == Init /\ [][NextClient]_vars

\* ------------------------------------------------------------ main and run
ConfigResults == {"nil", "ConfigLoadError"}
BridgeResults == {"nil", "SocketFatalError"}
Signals == {"SIGINT", "SIGTERM"}
Alive == pc # "exited"
Inflight == completing + replying

\* main, lines 43-47: initLogger
MainInitLogger ==
    /\ pc = "main"
    /\ \E ok \in BOOLEAN :
         IF ok THEN pc' = "args" /\ UNCHANGED exitCode
               ELSE pc' = "exited" /\ exitCode' = 1
    /\ UNCHANGED <<runErr, parseErr, loadErr, clients, notified, shutdown,
                   handlerErrors, branch, recvErr, graceLeft>>
    /\ UNCHANGED <<gvars, bvars, hvars>>

\* main, lines 50-54: arguments parsed, run entered
MainParseArgs ==
    /\ pc = "args"
    /\ pc' = "maxprocs"
    /\ UNCHANGED <<exitCode, runErr, parseErr, loadErr, clients, notified, shutdown,
                   handlerErrors, branch, recvErr, graceLeft>>
    /\ UNCHANGED <<gvars, bvars, hvars>>

\* run, lines 65-68: maxprocs.Set
RunMaxprocs ==
    /\ pc = "maxprocs"
    /\ \E ok \in BOOLEAN :
         IF ok THEN pc' = "config" /\ UNCHANGED runErr
               ELSE pc' = "returned" /\ runErr' = "maxprocs"
    /\ UNCHANGED <<exitCode, parseErr, loadErr, clients, notified, shutdown,
                   handlerErrors, branch, recvErr, graceLeft>>
    /\ UNCHANGED <<gvars, bvars, hvars>>

\* run, lines 69-73: both configuration steps, then the one error check
RunConfig ==
    /\ pc = "config"
    /\ \E e1 \in ConfigResults, e2 \in ConfigResults :
         /\ parseErr' = e1
         /\ loadErr' = e2
         /\ IF e2 # "nil"
            THEN pc' = "returned" /\ runErr' = e2
            ELSE pc' = "clients" /\ UNCHANGED runErr
    /\ UNCHANGED <<exitCode, clients, notified, shutdown,
                   handlerErrors, branch, recvErr, graceLeft>>
    /\ UNCHANGED <<gvars, bvars, hvars>>

\* run, lines 74-99: the three clients
RunClients ==
    /\ pc = "clients"
    /\ clients' = {"gpt", "slack", "socketmode"}
    /\ pc' = "notify"
    /\ UNCHANGED <<exitCode, runErr, parseErr, loadErr, notified, shutdown,
                   handlerErrors, branch, recvErr, graceLeft>>
    /\ UNCHANGED <<gvars, bvars, hvars>>

\* run, lines 102-104: signal.Notify
RunNotify ==
    /\ pc = "notify"
    /\ notified' = TRUE
    /\ pc' = "spawn"
    /\ UNCHANGED <<exitCode, runErr, parseErr, loadErr, clients, shutdown,
                   handlerErrors, branch, recvErr, graceLeft>>
    /\ UNCHANGED <<gvars, bvars, hvars>>

\* run, lines 109-116: the error channel and the bridge goroutine
RunSpawn ==
    /\ pc = "spawn"
    /\ bridge' = "running"
    /\ starts' = starts + 1
    /\ pc' = "select"
    /\ UNCHANGED <<exitCode, runErr, parseErr, loadErr, clients, notified, shutdown,
                   handlerErrors, branch, recvErr, graceLeft>>
    /\ UNCHANGED <<bridgeErr, sends, completing, replying>>
    /\ UNCHANGED <<gvars, hvars>>

\* run, lines 120-124: the select is evaluated; a ready case is taken (any one
\* of them when both are ready), and with none ready the goroutine blocks
SelectEither ==
    \/ /\ handlerErrors # <<>>
       /\ branch' = "error"
       /\ recvErr' = Head(handlerErrors)
       /\ handlerErrors' = Tail(handlerErrors)
       /\ pc' = "errbranch"
       /\ UNCHANGED shutdown
    \/ /\ shutdown # <<>>
       /\ branch' = "signal"
       /\ shutdown' = Tail(shutdown)
       /\ pc' = "sigbranch"
       /\ UNCHANGED <<handlerErrors, recvErr>>
    \/ /\ handlerErrors = <<>> /\ shutdown = <<>>
       /\ pc' = "parked"
       /\ UNCHANGED <<handlerErrors, shutdown, branch, recvErr>>

RunSelect ==
    /\ pc = "select"
    /\ SelectEither
    /\ UNCHANGED <<exitCode, runErr, parseErr, loadErr, clients, notified, graceLeft>>
    /\ UNCHANGED <<gvars, bvars, hvars>>

\* run, lines 121-122
RunHandlerError ==
    /\ pc = "errbranch"
    /\ runErr' = "handler error"
    /\ pc' = "returned"
    /\ UNCHANGED <<exitCode, parseErr, loadErr, clients, notified, shutdown,
                   handlerErrors, branch, recvErr, graceLeft>>
    /\ UNCHANGED <<gvars, bvars, hvars>>

\* run, lines 125-129: the timeout context is created and discarded
RunShutdownStart ==
    /\ pc = "sigbranch"
    /\ graceLeft' = GraceNs
    /\ pc' = "sigreturn"
    /\ UNCHANGED <<exitCode, runErr, parseErr, loadErr, clients, notified, shutdown,
                   handlerErrors, branch, recvErr>>
    /\ UNCHANGED <<gvars, bvars, hvars>>

\* the timer of the timeout context runs until cancel is called
GraceTick ==
    /\ pc = "sigreturn"
    /\ graceLeft > 0
    /\ graceLeft' = graceLeft - 1
    /\ UNCHANGED <<pc, exitCode, runErr, parseErr, loadErr, clients, notified, shutdown,
                   handlerErrors, branch, recvErr>>
    /\ UNCHANGED <<gvars, bvars, hvars>>

\* a shutdown that first receives the bridge's terminal value
RunShutdownReturnAfterDrain ==
    /\ pc = "sigreturn"
    /\ handlerErrors # <<>>
    /\ handlerErrors' = Tail(handlerErrors)
    /\ runErr' = "nil"
    /\ pc' = "returned"
    /\ UNCHANGED <<exitCode, parseErr, loadErr, clients, notified, shutdown,
                   branch, recvErr, graceLeft>>
    /\ UNCHANGED <<gvars, bvars, hvars>>

\* run, line 131 and the deferred cancel and log
RunShutdownReturn ==
    /\ pc = "sigreturn"
    /\ runErr' = "nil"
    /\ pc' = "returned"
    /\ UNCHANGED <<exitCode, parseErr, loadErr, clients, notified, shutdown,
                   handlerErrors, branch, recvErr, graceLeft>>
    /\ UNCHANGED <<gvars, bvars, hvars>>

\* main, lines 54-57
MainExit ==
    /\ pc = "returned"
    /\ exitCode' = IF runErr # "nil" THEN 1 ELSE 0
    /\ pc' = "exited"
    /\ UNCHANGED <<runErr, parseErr, loadErr, clients, notified, shutdown,
                   handlerErrors, branch, recvErr, graceLeft>>
    /\ UNCHANGED <<gvars, bvars, hvars>>

\* the os/signal package delivers SIGINT or SIGTERM with a non-blocking send on
\* the shutdown channel: handed to the blocked select, else buffered, else dropped
SignalArrive ==
    /\ notified /\ Alive
    /\ \E s \in Signals :
         IF pc = "parked"
         THEN /\ pc' = "sigbranch"
              /\ branch' = "signal"
              /\ UNCHANGED shutdown
         ELSE /\ shutdown' = IF Len(shutdown) < ShutdownCap
                             THEN Append(shutdown, s) ELSE shutdown
              /\ UNCHANGED <<pc, branch>>
    /\ firstReady' = IF firstReady = "none" THEN "signal" ELSE firstReady
    /\ sigClean' = (sigClean \/ (pc \in {"select", "parked"} /\ handlerErrors = <<>>
                                  /\ bridge \in {"running", "returning"}))
    /\ UNCHANGED <<exitCode, runErr, parseErr, loadErr, clients, notified,
                   handlerErrors, recvErr, graceLeft>>
    /\ UNCHANGED <<gvars, bvars>>

\* ------------------------------------------------------------- the bridge
\* slackgpt.EventHandler: an actionable event starts a dispatch
DispatchStart ==
    /\ Alive /\ bridge = "running"
    /\ Inflight < MaxInflight
    /\ completing' = completing + 1
    /\ UNCHANGED <<bridge, bridgeErr, starts, sends, replying>>
    /\ UNCHANGED <<gvars, svars, hvars>>

\* a dispatch's completion call resolves; on success the reply is posted next
CompletionResolve ==
    /\ Alive /\ completing > 0
    /\ \E ok \in BOOLEAN :
         /\ completing' = completing - 1
         /\ replying' = IF ok THEN replying + 1 ELSE replying
    /\ UNCHANGED <<bridge, bridgeErr, starts, sends>>
    /\ UNCHANGED <<gvars, svars, hvars>>

ReplyPosted ==
    /\ Alive /\ replying > 0
    /\ replying' = replying - 1
    /\ UNCHANGED <<bridge, bridgeErr, starts, sends, completing>>
    /\ UNCHANGED <<gvars, svars, hvars>>

\* slackgpt.EventHandler returns its terminal value
BridgeTerminate ==
    /\ Alive /\ bridge = "running"
    /\ \E e \in BridgeResults : bridgeErr' = e
    /\ bridge' = "returning"
    /\ UNCHANGED <<starts, sends, completing, replying>>
    /\ UNCHANGED <<gvars, svars, hvars>>

\* the send on an unbuffered channel: completes only into a blocked receiver
BridgeSendUnbuffered ==
    /\ Alive /\ bridge = "returning"
    /\ IF pc = "parked"
       THEN /\ pc' = "errbranch"
            /\ branch' = "error"
            /\ recvErr' = bridgeErr
            /\ bridge' = "done"
            /\ sends' = sends + 1
            /\ firstReady' = IF firstReady = "none" THEN "error" ELSE firstReady
       ELSE /\ bridge' = "blocked"
            /\ UNCHANGED <<pc, branch, recvErr, sends, firstReady>>
    /\ UNCHANGED <<handlerErrors, bridgeErr, starts, completing, replying, sigClean>>
    /\ UNCHANGED <<exitCode, runErr, parseErr, loadErr, clients, notified, shutdown,
                   graceLeft>>
    /\ UNCHANGED gvars

\* run, line 115: the goroutine sends the terminal value on handlerErrors:
\* handed to the blocked select, else buffered, else the sender blocks
BridgeSend ==
    /\ Alive /\ bridge = "returning"
    /\ IF pc = "parked"
       THEN /\ pc' = "errbranch"
            /\ branch' = "error"
            /\ recvErr' = bridgeErr
            /\ bridge' = "done"
            /\ sends' = sends + 1
            /\ firstReady' = IF firstReady = "none" THEN "error" ELSE firstReady
            /\ UNCHANGED handlerErrors
       ELSE IF Len(handlerErrors) < HandlerErrorsCap
       THEN /\ handlerErrors' = Append(handlerErrors, bridgeErr)
            /\ bridge' = "done"
            /\ sends' = sends + 1
            /\ firstReady' = IF firstReady = "none" THEN "error" ELSE firstReady
            /\ UNCHANGED <<pc, branch, recvErr>>
       ELSE /\ bridge' = "blocked"
            /\ UNCHANGED <<pc, branch, recvErr, sends, firstReady, handlerErrors>>
    /\ UNCHANGED <<bridgeErr, starts, completing, replying, sigClean>>
    /\ UNCHANGED <<exitCode, runErr, parseErr, loadErr, clients, notified, shutdown,
                   graceLeft>>
    /\ UNCHANGED gvars

SupervisorNext ==
    \/ MainInitLogger \/ MainParseArgs \/ RunMaxprocs \/ RunConfig \/ RunClients
    \/ RunNotify \/ RunSpawn \/ RunSelect \/ RunHandlerError \/ RunShutdownStart
    \/ RunShutdownReturn \/ MainExit

Next ==
    \/ SupervisorNext
    \/ GraceTick \/ SignalArrive
    \/ DispatchStart \/ CompletionResolve \/ ReplyPosted \/ BridgeTerminate \/ BridgeSend

Spec == Init /\ [][Next]_vars

\* the main goroutine is scheduled as long as it can run
FairSpec == Spec /\ WF_vars(SupervisorNext)

\* ------------------------------------------------- GetStringResponse claims
UserMessage == req.messages[2].content
ApiAnswered == resp # NoResp

\* offset of fragment i in the joined message
RECURSIVE Offset(_, _)
Offset(c, i) == IF i = 1 THEN 0 ELSE Offset(c, i - 1) + Len(c[i - 1]) + 1

\* msg is the fragments of c in order, one space between neighbours
IsJoinedBySpace(msg, c) ==
    /\ Len(msg) = Offset(c, Len(c) + 1) - 1
    /\ \A i \in 1..Len(c) :
         /\ SubSeq(msg, Offset(c, i) + 1, Offset(c, i) + Len(c[i])) = c[i]
         /\ i < Len(c) => msg[Offset(c, i) + Len(c[i]) + 1] = " "

\* out is s without its leading and trailing whitespace
IsTrimOf(out, s) ==
    /\ \E i \in 0..Len(s) : \E j \in i..Len(s) :
         /\ out = SubSeq(s, i + 1, j)
         /\ \A k \in 1..i : IsSpace(s[k])
         /\ \A k \in (j + 1)..Len(s) : IsSpace(s[k])
    /\ out = <<>> \/ (~IsSpace(out[1]) /\ ~IsSpace(out[Len(out)]))

\* C1: called with the empty conversation, GetStringResponse returns "" and
\* ErrorEmptyPrompt, builds no request and issues no completion call.
EmptyConversationRejected ==
    (gpc # "idle" /\ chat = <<>>) =>
        /\ gpc = "returned"
        /\ result = <<>>
        /\ err = "ErrorEmptyPrompt"
        /\ apiCalls = 0
        /\ req = NoReq
        /\ resp = NoResp

EmptyConversationReturned ==
    gpc = "returned" /\ chat = <<>> /\ err = "ErrorEmptyPrompt" /\ apiCalls = 0

\* C2: for a non-empty conversation and a successful answer with at least one
\* choice, exactly one call was issued, its user message is the fragments joined
\* in order by single spaces, and the first choice's text is returned trimmed,
\* with a nil error.
JoinedRequestTrimmedReply ==
    (chat # <<>> /\ ApiAnswered /\ resp.err = "nil" /\ Len(resp.choices) >= 1) =>
        /\ gpc = "returned"
        /\ apiCalls = 1
        /\ req.messages[2].role = "user"
        /\ IsJoinedBySpace(UserMessage, chat)
        /\ IsTrimOf(result, resp.choices[1].content)
        /\ err = "nil"

ThreeFragmentsPaddedReply ==
    /\ gpc = "returned"
    /\ chat = << <<"a">>, <<"a">>, <<"a">> >>
    /\ UserMessage = <<"a", " ", "a", " ", "a">>
    /\ Len(resp.choices) = 2
    /\ resp.choices[1].content = <<" ", "a", " ">>
    /\ result = <<"a">>
    /\ err = "nil"

\* C3: when the completion call returns an error, GetStringResponse returns
\* that same error and the empty string, after exactly one call.
ApiErrorReturnedUnchanged ==
    (ApiAnswered /\ resp.err # "nil") =>
        /\ gpc = "returned"
        /\ err = resp.err
        /\ result = <<>>
        /\ apiCalls = 1

ApiErrorReturned ==
    gpc = "returned" /\ resp.err = "ErrRateLimit" /\ err = "ErrRateLimit"

\* C4: when the completion call succeeds with zero choices, GetStringResponse
\* returns a non-nil error and does not fault.
ZeroChoicesDefinedError ==
    /\ gpc # "panicked"
    /\ (ApiAnswered /\ resp.err = "nil" /\ Len(resp.choices) = 0) =>
          (gpc = "returned" /\ err \notin {"nil", "unset"})

\* C5: every request built from a non-empty conversation has a non-empty user
\* message, whatever the fragments are.
UserMessageNonEmpty ==
    (chat # <<>> /\ req # NoReq) => UserMessage # <<>>

\* ------------------------------------------------------- supervisor claims
Exited == pc = "exited"
ConfigFailed == parseErr = "ConfigLoadError" \/ loadErr = "ConfigLoadError"

\* C6 as stated: a signal that arrives at the supervisor's wait point while no
\* handler error is pending ends in run returning nil and exit code 0.  (Runs
\* in which the supervisor receives a nil terminal value are left out: what
\* the supervisor does with those is C7's subject.)
SignalWithNoErrorPendingExitsZero ==
    (Exited /\ sigClean /\ recvErr # "nil") => (runErr = "nil" /\ exitCode = 0)

\* C6 amended: a signal that arrives while the supervisor is blocked in the
\* select is the case taken, and once the select has taken the signal case run
\* eventually returns nil and the process exits with code 0.
SignalTakenExitsZero ==
    /\ [][(pc = "parked" /\ firstReady' = "signal") => branch' = "signal"]_vars
    /\ (branch = "signal") ~> (Exited /\ runErr = "nil" /\ exitCode = 0)

SignalTakenWithCompletionInFlight ==
    /\ Exited /\ branch = "signal" /\ firstReady = "signal" /\ sigClean
    /\ runErr = "nil" /\ exitCode = 0
    /\ completing > 0

\* C7: once the configuration step has been reached, the exit code is 1 exactly
\* when configuration loading failed or a non-nil terminal error was received
\* from the error channel; a nil terminal error is not reported as a handler
\* error and does not give exit code 1.
ExitCodeContract ==
    (Exited /\ parseErr # "unset") =>
        /\ exitCode = 1 <=> (ConfigFailed \/ recvErr = "SocketFatalError")
        /\ recvErr = "nil" => (exitCode # 1 /\ runErr # "handler error")

\* C8: a failure of either configuration step makes run return a non-nil error
\* before any client is constructed and before the bridge is started.
ConfigFailureIsFatal ==
    ConfigFailed =>
        /\ pc \in {"returned", "exited"}
        /\ runErr \notin {"unset", "nil"}
        /\ clients = {}
        /\ bridge = "notstarted"
        /\ Exited => exitCode = 1

\* C9: after the signal case is taken, run has not returned while a dispatch
\* is in flight and the grace period has not elapsed.
ShutdownWaitsForDispatches ==
    (branch = "signal" /\ pc \in {"returned", "exited"}) =>
        (Inflight = 0 \/ graceLeft = 0)

====
